---------------------------- MODULE Spec2Model ----------------------------
(***************************************************************************)
(* Voyage planner: the trajectory generators of Dummy_Data.py and app.py,  *)
(* the map set-up of app.py, and the land-aware route planner of spec.md.  *)
(*                                                                         *)
(* Number representation.  The source computes with floats; the model      *)
(* uses fixed point integers:                                              *)
(*   - a coordinate is <<lat, lon>> in micro-degrees (1e-6 degree);        *)
(*   - a coordinate of a CSV record is in 1e-5 degree (round(x, 5));       *)
(*   - a cosine or sine is scaled by 10000;                                *)
(*   - a distance is in metres, and compared squared;                      *)
(*   - a datetime is the number of minutes since 2025-01-01T00:00.         *)
(***************************************************************************)
EXTENDS Integers, Sequences, FiniteSets, TLC

VARIABLES
    \* ---- onsite_movement_safe, one call (SpecOnsite)
    impl,           \* "Dummy_Data" or "app": whose onsite_movement_safe runs
    rig,            \* the arguments (rig_lat, rig_lon)
    steps,          \* the argument steps
    coords,         \* the local list coords
    attempts,       \* number of candidates sampled so far (loop iterations)
    opc             \* "loop" | "returned"

onsiteVars == <<impl, rig, steps, coords, attempts, opc>>

VARIABLES
    \* ---- generate_transit_route, one call (SpecLeg)
    points,         \* the argument points
    total_minutes,  \* the argument total_minutes
    route,          \* the local list route
    leg_i,          \* number of legs the for loop has gone through
    leg_coords,     \* what the last interpolate_leg call returned
    gpc             \* "loop" | "returned" | "ZeroDivisionError"

legVars == <<points, total_minutes, route, leg_i, leg_coords, gpc>>

VARIABLES
    \* ---- the scripts Dummy_Data.py and app.py (SpecVoyage)
    script,         \* "Dummy_Data" or "app": the script that runs
    pc,             \* the statement the script is at
    time,           \* time (Dummy_Data.py), time_cursor (app.py)
    rows,           \* the list rows
    csv,            \* OUTPUT_FILE: "missing", or the records written to it
    RIG_now,        \* the global RIG of the running script
    route_coords,   \* app.py: route_coords
    circles,        \* app.py: the folium.Circle layers, <<centre, radius>>
    rig_marker      \* app.py: where the "Rig" marker is, or "none"

voyageVars ==
    <<script, pc, time, rows, csv, RIG_now, route_coords, circles, rig_marker>>

VARIABLES
    \* ---- the land-aware route planner, one routing request (SpecPlanner)
    start_point,    \* the start point
    end_point,      \* the end point
    land,           \* the LandPolygon set: a set of rings (vertex sequences)
    padding,        \* bounding-box padding
    nodes,          \* RouteGraph nodes: the water grid points, start, end
    weight,         \* RouteGraph edges: <<i, j>> (i < j) |-> weight
    cursor,         \* the node the graph builder is at
    dist,           \* solver: tentative distance of each reached node
    prev,           \* solver: predecessor of each reached node
    settled,        \* solver: the nodes whose distance is final
    path,           \* the Path returned
    path_weight,    \* its total weight
    ppc             \* "grid" | "graph" | "solve" | "found" | "NoPathFound"

plannerVars ==
    <<start_point, end_point, land, padding, nodes, weight, cursor, dist, prev, settled,
      path, path_weight, ppc>>

vars == <<onsiteVars, legVars, voyageVars, plannerVars>>

\* The variables of a part that a specification does not run.
OnsiteIdle ==
    /\ impl = "none"
    /\ rig = <<0, 0>>
    /\ steps = 0
    /\ coords = <<>>
    /\ attempts = 0
    /\ opc = "idle"

LegIdle ==
    /\ points = <<>>
    /\ total_minutes = 0
    /\ route = <<>>
    /\ leg_i = 0
    /\ leg_coords = <<>>
    /\ gpc = "idle"

VoyageIdle ==
    /\ script = "none"
    /\ pc = "idle"
    /\ time = 0
    /\ rows = <<>>
    /\ csv = "missing"
    /\ RIG_now = <<0, 0>>
    /\ route_coords = <<>>
    /\ circles = {}
    /\ rig_marker = "none"

PlannerIdle ==
    /\ start_point = <<0, 0>>
    /\ end_point = <<0, 0>>
    /\ land = {}
    /\ padding = 0
    /\ nodes = <<>>
    /\ weight = <<>>
    /\ cursor = 0
    /\ dist = <<>>
    /\ prev = <<>>
    /\ settled = {}
    /\ path = <<>>
    /\ path_weight = 0
    /\ ppc = "idle"

---------------------------------------------------------------------------
(* Configuration *)

PORT == <<18938507, 72851778>>
RIG == <<19416670, 71333330>>
WAYPOINTS ==
    << <<18914154, 72859088>>,
       <<18876627, 72853813>>,
       <<18828721, 72813187>>,
       <<18871908, 72596080>>,
       <<18898423, 72478823>> >>

\* list[::-1]
Reverse(s) == [k \in 1..Len(s) |-> s[Len(s) + 1 - k]]

Abs(x) == IF x < 0 THEN -x ELSE x

---------------------------------------------------------------------------
(* haversine_km *)

\* cos(d degrees) * 10000 at the whole degrees the model's latitudes lie
\* between (math.cos(math.radians(d))).
CosDeg(d) ==
    CASE d = 18 -> 9511
      [] d = 19 -> 9455
      [] d = 20 -> 9397
      [] d = 88 -> 349
      [] d = 89 -> 175
      [] d = 90 -> 0
      [] OTHER -> 10000

\* math.cos(math.radians(lat)) * 10000 for lat in micro-degrees, linear
\* between whole degrees.
CosE4(lat) ==
    LET d == lat \div 1000000
        f == lat % 1000000
    IN  CosDeg(d) + ((CosDeg(d + 1) - CosDeg(d)) * f) \div 1000000

\* Metres of arc of a difference of u micro-degrees on the sphere R = 6371 km
\* (one degree is 111.195 km).
ArcMetres(u) == (Abs(u) * 1112) \div 10000

\* The model reports a distance over FarMetres as FarMetres: distances are
\* only compared with 1 km, and the squares stay within 32 bits.
FarMetres == 30 * 1000

\* haversine_km squared, in square metres.  For the distances of the model
\* (a few km) R * 2 * atan2(sqrt a, sqrt(1 - a)) is sqrt(dy^2 + cos(phi1) *
\* cos(phi2) * dx^2) to well under a metre.
haversine_m2(lat1, lon1, lat2, lon2) ==
    LET dy == ArcMetres(lat2 - lat1)
        dx == ArcMetres(lon2 - lon1)
        ex1 == (dx * CosE4(lat1)) \div 10000
        ex2 == (dx * CosE4(lat2)) \div 10000
    IN  IF dy > FarMetres \/ ex1 > FarMetres \/ ex2 > FarMetres
            THEN FarMetres * FarMetres
            ELSE dy * dy + ex1 * ex2

\* 1 km, squared, in square metres: the bound of "haversine_km(...) < 1".
ExclusionM2 == 1000 * 1000

---------------------------------------------------------------------------
(* onsite_movement_safe *)

\* min_r = 5 / 111 and max_r = 7 / 111 degrees, in micro-degrees.
min_r == 45045
max_r == 63063

\* Values random.uniform(min_r, max_r) is drawn from.
RadiusSamples == {min_r, max_r}

\* Values random.uniform(0, 2 * math.pi) is drawn from, each as its
\* (cos, sin) * 10000: 0, atan2(4, 3), pi / 2, pi, 3 * pi / 2.
AngleSamples ==
    { <<10000, 0>>, <<6000, 8000>>, <<0, 10000>>, <<-10000, 0>>, <<0, -10000>> }

\* lat = rig_lat + radius * cos(angle); lon = rig_lon + radius * sin(angle)
Candidate(rig_lat, rig_lon, angle, radius) ==
    << rig_lat + (radius * angle[1]) \div 10000,
       rig_lon + (radius * angle[2]) \div 10000 >>

Candidates(rig_lat, rig_lon) ==
    { Candidate(rig_lat, rig_lon, a, r) : a \in AngleSamples, r \in RadiusSamples }

\* A mutant of InExclusion: the safety check is missing.
InExclusionNever(lat, lon, rig_lat, rig_lon) == FALSE

\* the safety check: haversine_km(lat, lon, rig_lat, rig_lon) < 1
InExclusion(lat, lon, rig_lat, rig_lon) ==
    haversine_m2(lat, lon, rig_lat, rig_lon) < ExclusionM2

\* One loop body: the candidate c is skipped (continue) or appended.
OnsiteBody(cs, c, rig_lat, rig_lon) ==
    IF InExclusion(c[1], c[2], rig_lat, rig_lon) THEN cs ELSE Append(cs, c)

\* Bounds of the single-call specification.
MaxOnsiteSteps == 2
MaxAttempts == 3

\* Rig positions the call is made with: the configured RIG and a rig at
\* 89 degrees north, where a degree of longitude is under 2 km.
RigInputs == { RIG, <<89000000, 0>> }

InitOnsite ==
    /\ impl \in {"Dummy_Data", "app"}
    /\ rig \in RigInputs
    /\ steps \in 0..MaxOnsiteSteps
    /\ coords = <<>>
    /\ attempts = 0
    /\ opc = "loop"
    /\ LegIdle
    /\ VoyageIdle
    /\ PlannerIdle

\* Dummy_Data.py: for _ in range(steps): one iteration.
DummyIterate ==
    /\ impl = "Dummy_Data" /\ opc = "loop"
    /\ attempts < steps
    /\ \E c \in Candidates(rig[1], rig[2]) :
          coords' = OnsiteBody(coords, c, rig[1], rig[2])
    /\ attempts' = attempts + 1
    /\ UNCHANGED <<impl, rig, steps, opc, legVars, voyageVars, plannerVars>>

\* Dummy_Data.py: the range is exhausted; return coords.
DummyReturn ==
    /\ impl = "Dummy_Data" /\ opc = "loop"
    /\ attempts >= steps
    /\ opc' = "returned"
    /\ UNCHANGED <<impl, rig, steps, coords, attempts, legVars, voyageVars, plannerVars>>

\* app.py: while len(coords) < steps: one iteration.
AppIterate ==
    /\ impl = "app" /\ opc = "loop"
    /\ Len(coords) < steps
    /\ attempts < MaxAttempts
    /\ \E c \in Candidates(rig[1], rig[2]) :
          coords' = OnsiteBody(coords, c, rig[1], rig[2])
    /\ attempts' = attempts + 1
    /\ UNCHANGED <<impl, rig, steps, opc, legVars, voyageVars, plannerVars>>

\* app.py: len(coords) >= steps; return coords.
AppReturn ==
    /\ impl = "app" /\ opc = "loop"
    /\ Len(coords) >= steps
    /\ opc' = "returned"
    /\ UNCHANGED <<impl, rig, steps, coords, attempts, legVars, voyageVars, plannerVars>>

NextOnsite == DummyIterate \/ DummyReturn \/ AppIterate \/ AppReturn

SpecOnsite == InitOnsite /\ [][NextOnsite]_vars

---------------------------------------------------------------------------
(* random_drift, interpolate_leg, generate_transit_route *)

\* scale = 0.0004 degrees, in micro-degrees.
DRIFT_SCALE == 400

\* Values random.uniform(-scale, scale) is drawn from.
DriftSamples == {-DRIFT_SCALE, 0, DRIFT_SCALE}

\* A mutant of Lerp: frac = i / steps.
LerpOverSteps(a, b, i, n) == a + ((b - a) * i) \div n

\* start + (end - start) * frac with frac = i / (steps - 1)
Lerp(a, b, i, n) == a + ((b - a) * i) \div (n - 1)

\* frac = i / (steps - 1) divides by zero in the first iteration.
InterpolateLegRaises(n) == n = 1

\* The lists interpolate_leg(start, end, steps) can return when each
\* random_drift() call returns a value of drifts (n # 1).
interpolate_leg(start, end, n, drifts) ==
    { [k \in 1..n |-> << Lerp(start[1], end[1], k - 1, n) + d[k][1],
                         Lerp(start[2], end[2], k - 1, n) + d[k][2] >>] :
        d \in [1..n -> drifts \X drifts] }

\* legs = list(zip(points[:-1], points[1:]))
NumLegs(pts) == IF Len(pts) = 0 THEN 0 ELSE Len(pts) - 1

\* minutes_per_leg = total_minutes // len(legs)
minutes_per_leg(pts, total) == total \div NumLegs(pts)

\* Bounds of the single-call specification.
MaxWaypoints == 1
MaxTotalMinutes == 4

\* Routes the call is made with: Port -> Waypoints -> Rig and its reverse,
\* over the first waypoints of the list.
RouteInputs ==
    UNION { { <<PORT>> \o SubSeq(WAYPOINTS, 1, w) \o <<RIG>>,
              <<RIG>> \o Reverse(SubSeq(WAYPOINTS, 1, w)) \o <<PORT>> } :
            w \in 0..MaxWaypoints }

InitLeg ==
    /\ points \in RouteInputs
    /\ total_minutes \in 0..MaxTotalMinutes
    /\ route = <<>>
    /\ leg_i = 0
    /\ leg_coords = <<>>
    /\ gpc = "loop"
    /\ OnsiteIdle
    /\ VoyageIdle
    /\ PlannerIdle

\* for start, end in legs: route.extend(interpolate_leg(start, end, minutes_per_leg))
InterpolateNextLeg ==
    /\ gpc = "loop"
    /\ leg_i < NumLegs(points)
    /\ ~InterpolateLegRaises(minutes_per_leg(points, total_minutes))
    /\ \E cs \in interpolate_leg(points[leg_i + 1], points[leg_i + 2],
                                 minutes_per_leg(points, total_minutes),
                                 DriftSamples) :
          /\ leg_coords' = cs
          /\ route' = route \o cs
    /\ leg_i' = leg_i + 1
    /\ UNCHANGED <<points, total_minutes, gpc, onsiteVars, voyageVars, plannerVars>>

\* The same statement when interpolate_leg raises ZeroDivisionError.
InterpolateLegFails ==
    /\ gpc = "loop"
    /\ leg_i < NumLegs(points)
    /\ InterpolateLegRaises(minutes_per_leg(points, total_minutes))
    /\ gpc' = "ZeroDivisionError"
    /\ UNCHANGED <<points, total_minutes, route, leg_i, leg_coords, onsiteVars, voyageVars, plannerVars>>

\* return route
ReturnRoute ==
    /\ gpc = "loop"
    /\ leg_i = NumLegs(points)
    /\ gpc' = "returned"
    /\ UNCHANGED <<points, total_minutes, route, leg_i, leg_coords, onsiteVars, voyageVars, plannerVars>>

NextLeg == InterpolateNextLeg \/ InterpolateLegFails \/ ReturnRoute

SpecLeg == InitLeg /\ [][NextLeg]_vars

---------------------------------------------------------------------------
(* The scripts: generate the voyage, write the CSV, load it, set up the map *)

VESSEL_NAME == "OSV_DUMMY_01"

\* START_TIME = datetime(2025, 1, 1, 6, 0)
START_TIME == 360
TIME_STEP_MIN == 1

\* Voyage durations (minutes), scaled down from 24 * 60 and 5 * 24 * 60:
\* two minutes for each of the six legs, and two minutes on site.
TRANSIT_MINUTES_TOTAL == 12
ONSITE_MINUTES == 2

\* datetime.isoformat() + "Z": <<year, month, day, hour, minute>> of a
\* datetime of January 2025.
isoformat(t) == <<2025, 1, t \div 1440 + 1, (t % 1440) \div 60, t % 60>>

\* The datetime a timestamp of January 2025 stands for.
fromisoformat(ts) == ((ts[3] - 1) * 24 + ts[4]) * 60 + ts[5]

\* round(x, 5) of x in micro-degrees, in 1e-5 degree.
Round5(x) == (x + 5) \div 10

\* float(latitude) of a record, in micro-degrees.
Degrees(x5) == x5 * 10

\* A mutant of Tick: the clock is not advanced.
TickStuck(t) == t

\* time += timedelta(minutes=TIME_STEP_MIN)
Tick(t) == t + TIME_STEP_MIN

\* One record.  speed_knots, course_deg, heading_deg, the on-site activity
\* after "On Site / " and the nav_status derived from it are draws nothing
\* else reads; the record keeps the other columns.
Row(t, phase, c) ==
    [ timestamp    |-> isoformat(t),
      vessel_name  |-> VESSEL_NAME,
      voyage_phase |-> phase,
      latitude     |-> Round5(c[1]),
      longitude    |-> Round5(c[2]) ]

\* for lat, lon in cs: rows.append([...]); time += timedelta(...)
RECURSIVE EmitRows(_, _, _, _)
EmitRows(rws, t, cs, phase) ==
    IF cs = <<>>
        THEN [rows |-> rws, time |-> t]
        ELSE EmitRows(Append(rws, Row(t, phase, Head(cs))), Tick(t), Tail(cs), phase)

\* generate_transit_route raises ZeroDivisionError: in total_minutes // 0,
\* or in interpolate_leg.
GenerateRaises(pts, total) ==
    \/ NumLegs(pts) = 0
    \/ InterpolateLegRaises(minutes_per_leg(pts, total))

\* The routes generate_transit_route(points, total_minutes) can return: the
\* legs k, k + 1, ... of n steps each, concatenated.
RECURSIVE transit_legs(_, _, _, _)
transit_legs(pts, k, n, drifts) ==
    IF k > NumLegs(pts)
        THEN { <<>> }
        ELSE { a \o b : a \in interpolate_leg(pts[k], pts[k + 1], n, drifts),
                        b \in transit_legs(pts, k + 1, n, drifts) }

generate_transit_route(pts, total, drifts) ==
    transit_legs(pts, 1, minutes_per_leg(pts, total), drifts)

\* The lists Dummy_Data.py's onsite_movement_safe can return: n iterations
\* of the for loop.
RECURSIVE onsite_movement_safe_for(_, _, _)
onsite_movement_safe_for(rig_lat, rig_lon, n) ==
    IF n = 0
        THEN { <<>> }
        ELSE { OnsiteBody(cs, c, rig_lat, rig_lon) :
                 cs \in onsite_movement_safe_for(rig_lat, rig_lon, n - 1),
                 c \in Candidates(rig_lat, rig_lon) }

\* The lists app.py's onsite_movement_safe can return: the while loop ends
\* with n candidates appended.
onsite_movement_safe_while(rig_lat, rig_lon, n) ==
    [1..n -> { c \in Candidates(rig_lat, rig_lon) :
                 ~InExclusion(c[1], c[2], rig_lat, rig_lon) }]

onsite_movement_safe(of, rig_lat, rig_lon, n) ==
    IF of = "app"
        THEN onsite_movement_safe_while(rig_lat, rig_lon, n)
        ELSE onsite_movement_safe_for(rig_lat, rig_lon, n)

route_points == <<PORT>> \o WAYPOINTS \o <<RIG>>
return_points == <<RIG>> \o Reverse(WAYPOINTS) \o <<PORT>>

\* "On Site" in voyage_phase
IsOnSite(r) == r.voyage_phase = "On Site"

InitVoyage ==
    /\ script \in {"Dummy_Data", "app"}
    /\ pc = IF script = "app" THEN "check_file" ELSE "outbound"
    /\ time = START_TIME
    /\ rows = <<>>
    /\ csv = "missing"
    /\ RIG_now = RIG
    /\ route_coords = <<>>
    /\ circles = {}
    /\ rig_marker = "none"
    /\ OnsiteIdle
    /\ LegIdle
    /\ PlannerIdle

\* A transit phase: generate_transit_route, then one record per coordinate.
\* Within one generate_transit_route call of a voyage every random_drift()
\* returns the same sample d; the calls draw d independently.
Transit(at, pts, phase, next) ==
    /\ pc = at
    /\ IF GenerateRaises(pts, TRANSIT_MINUTES_TOTAL)
          THEN /\ pc' = "ZeroDivisionError"
               /\ UNCHANGED <<rows, time>>
          ELSE \E d \in DriftSamples :
               \E cs \in generate_transit_route(pts, TRANSIT_MINUTES_TOTAL, {d}) :
                  LET out == EmitRows(rows, time, cs, phase)
                  IN  /\ rows' = out.rows
                      /\ time' = out.time
                      /\ pc' = next
    /\ UNCHANGED <<script, csv, RIG_now, route_coords, circles, rig_marker,
                   onsiteVars, legVars, plannerVars>>

\* --- Outbound transit ---
OutboundTransit == Transit("outbound", route_points, "Outbound Transit", "onsite")

\* --- On-site operations ---
OnSite ==
    /\ pc = "onsite"
    /\ \E cs \in onsite_movement_safe(script, RIG_now[1], RIG_now[2], ONSITE_MINUTES) :
          LET out == EmitRows(rows, time, cs, "On Site")
          IN  /\ rows' = out.rows
              /\ time' = out.time
    /\ pc' = "return"
    /\ UNCHANGED <<script, csv, RIG_now, route_coords, circles, rig_marker,
                   onsiteVars, legVars, plannerVars>>

\* --- Return transit (reverse waypoints) ---
ReturnTransit == Transit("return", return_points, "Return Transit", "write")

\* Write CSV: csv.writer(...).writerows(rows), df_gen.to_csv(OUTPUT_FILE)
WriteCSV ==
    /\ pc = "write"
    /\ csv' = rows
    /\ pc' = IF script = "app" THEN "load" ELSE "exit"
    /\ UNCHANGED <<script, time, rows, RIG_now, route_coords, circles, rig_marker,
                   onsiteVars, legVars, plannerVars>>

\* app.py is started after Dummy_Data.py has written the file.
RunApp ==
    /\ script = "Dummy_Data" /\ pc = "exit"
    /\ script' = "app"
    /\ pc' = "check_file"
    /\ time' = START_TIME
    /\ rows' = <<>>
    /\ RIG_now' = RIG
    /\ UNCHANGED <<csv, route_coords, circles, rig_marker, onsiteVars, legVars, plannerVars>>

\* app.py: if not os.path.exists(OUTPUT_FILE)
AppCheckFile ==
    /\ script = "app" /\ pc = "check_file"
    /\ pc' = IF csv = "missing" THEN "outbound" ELSE "load"
    /\ UNCHANGED <<script, time, rows, csv, RIG_now, route_coords, circles,
                   rig_marker, onsiteVars, legVars, plannerVars>>

\* app.py, Load CSV: df = pd.read_csv(OUTPUT_FILE); route_coords;
\* rig_row = df[df["voyage_phase"].str.contains("On Site")].iloc[0];
\* RIG = [rig_row.latitude, rig_row.longitude]
LoadCSV ==
    /\ script = "app" /\ pc = "load"
    /\ LET df == csv
           on_site == SelectSeq(df, IsOnSite)
       IN  /\ route_coords' =
                 [k \in 1..Len(df) |-> <<Degrees(df[k].latitude), Degrees(df[k].longitude)>>]
           /\ IF on_site = <<>>
                 THEN /\ pc' = "IndexError"
                      /\ UNCHANGED RIG_now
                 ELSE /\ RIG_now' = <<Degrees(on_site[1].latitude),
                                      Degrees(on_site[1].longitude)>>
                      /\ pc' = "map"
    /\ UNCHANGED <<script, time, rows, csv, circles, rig_marker, onsiteVars, legVars, plannerVars>>

\* app.py, Base map: the circles (if show_radii) and the rig marker.
BaseMap ==
    /\ script = "app" /\ pc = "map"
    /\ \E show_radii \in BOOLEAN :
          circles' = IF show_radii THEN { <<RIG_now, 1000>>, <<RIG_now, 7000>> } ELSE {}
    /\ rig_marker' = RIG_now
    /\ pc' = "done"
    /\ UNCHANGED <<script, time, rows, csv, RIG_now, route_coords, onsiteVars, legVars, plannerVars>>

NextVoyage ==
    \/ OutboundTransit
    \/ OnSite
    \/ ReturnTransit
    \/ WriteCSV
    \/ RunApp
    \/ AppCheckFile
    \/ LoadCSV
    \/ BaseMap

SpecVoyage == InitVoyage /\ [][NextVoyage]_vars

---------------------------------------------------------------------------
(* The land-aware route planner (spec.md 4.1 - 4.4).  A planner coordinate *)
(* is <<lat, lon>> in units of 0.05 degree; a weight is in tenths of a     *)
(* nautical mile.  The rings of the model are convex, and a ring's         *)
(* boundary counts as land.                                                *)

Min(a, b) == IF a < b THEN a ELSE b
Max(a, b) == IF a > b THEN a ELSE b

\* Twice the signed area of the triangle o, a, b.
Cross(o, a, b) == (a[1] - o[1]) * (b[2] - o[2]) - (a[2] - o[2]) * (b[1] - o[1])

\* p lies on the closed segment a-b.
OnSegment(p, a, b) ==
    /\ Cross(a, b, p) = 0
    /\ Min(a[1], b[1]) <= p[1] /\ p[1] <= Max(a[1], b[1])
    /\ Min(a[2], b[2]) <= p[2] /\ p[2] <= Max(a[2], b[2])

\* The closed segments a-b and c-d share a point.
SegmentsIntersect(a, b, c, d) ==
    LET d1 == Cross(c, d, a)
        d2 == Cross(c, d, b)
        d3 == Cross(a, b, c)
        d4 == Cross(a, b, d)
    IN  \/ /\ (d1 > 0 /\ d2 < 0) \/ (d1 < 0 /\ d2 > 0)
           /\ (d3 > 0 /\ d4 < 0) \/ (d3 < 0 /\ d4 > 0)
        \/ OnSegment(a, c, d)
        \/ OnSegment(b, c, d)
        \/ OnSegment(c, a, b)
        \/ OnSegment(d, a, b)

\* The vertex after the k-th of a ring.
RingNext(ring, k) == ring[(k % Len(ring)) + 1]

\* p is inside the convex ring or on its boundary.
InRing(p, ring) ==
    \/ \A k \in 1..Len(ring) : Cross(ring[k], RingNext(ring, k), p) >= 0
    \/ \A k \in 1..Len(ring) : Cross(ring[k], RingNext(ring, k), p) <= 0

\* point_on_land(point, polygons)
point_on_land(p, polygons) == \E ring \in polygons : InRing(p, ring)

\* segment_crosses_land(p1, p2, polygons)
segment_crosses_land(p1, p2, polygons) ==
    \E ring \in polygons :
        \/ InRing(p1, ring)
        \/ InRing(p2, ring)
        \/ \E k \in 1..Len(ring) :
              SegmentsIntersect(p1, p2, ring[k], RingNext(ring, k))

\* Grid step, in planner units, for latitude and for longitude.
GridStep == 2

\* Water Grid Generator: the lattice points of the padded bounding box of
\* start and end, latitude-major, without those on land.
water_grid(s, e, pad, polygons) ==
    LET lat0 == Min(s[1], e[1]) - pad
        lon0 == Min(s[2], e[2]) - pad
        nlat == (Max(s[1], e[1]) + pad - lat0) \div GridStep + 1
        nlon == (Max(s[2], e[2]) + pad - lon0) \div GridStep + 1
        lattice == [n \in 1..(nlat * nlon) |->
                      << lat0 + ((n - 1) \div nlon) * GridStep,
                         lon0 + ((n - 1) % nlon) * GridStep >>]
    IN  SelectSeq(lattice, LAMBDA p : ~point_on_land(p, polygons))

\* The largest r in lo..hi with r * r <= n (lo * lo <= n).
RECURSIVE ISqrtIn(_, _, _)
ISqrtIn(n, lo, hi) ==
    IF lo >= hi
        THEN lo
        ELSE LET mid == (lo + hi + 1) \div 2
             IN  IF mid * mid <= n THEN ISqrtIn(n, mid, hi) ELSE ISqrtIn(n, lo, mid - 1)

\* Great-circle distance of p and q in tenths of a nautical mile: a unit of
\* latitude is 3 nm, a unit of longitude 3 nm * cos(latitude).
great_circle(p, q) ==
    LET dy == Abs(q[1] - p[1]) * 30
        dx == Abs(q[2] - p[2]) * 30
        ex == ((dx * CosE4(p[1] * 50000)) \div 10000) * ((dx * CosE4(q[1] * 50000)) \div 10000)
    IN  ISqrtIn(dy * dy + ex, 0, dy + dx)

\* A mutant of EdgeAllowed: only the end points of the segment are tested.
EdgeAllowedEndpoints(p, q, polygons) ==
    ~point_on_land(p, polygons) /\ ~point_on_land(q, polygons)

\* Visibility Graph Builder: the test that admits the edge p-q.
EdgeAllowed(p, q, polygons) == ~segment_crosses_land(p, q, polygons)

NodeCount == Len(nodes)
start_node == NodeCount - 1
end_node == NodeCount

HasEdge(u, v) == <<Min(u, v), Max(u, v)>> \in DOMAIN weight
W(u, v) == weight[<<Min(u, v), Max(u, v)>>]

\* Shortest Path Solver: the unsettled reached node of least distance (of
\* least index among equals).
ExtractMin(U, d) ==
    CHOOSE u \in U : \A v \in U : d[u] < d[v] \/ (d[u] = d[v] /\ u <= v)

\* A mutant of Improves: a node's first tentative distance is kept.
ImprovesUnreachedOnly(u, v) == v \notin DOMAIN dist

\* Shortest Path Solver: going through u shortens the way to v.
Improves(u, v) == v \notin DOMAIN dist \/ dist[u] + W(u, v) < dist[v]

\* The node sequence from the start node to v along prev.
RECURSIVE PathTo(_, _)
PathTo(pr, v) == IF v \in DOMAIN pr THEN Append(PathTo(pr, pr[v]), v) ELSE <<v>>

\* Bound of the routing requests: padding is 0..MaxPadding grid steps.
MaxPadding == 1

\* Land polygon sets of the requests: open water; an island on the direct
\* line; the island and a second one north of it; a wall between start and
\* end.
Island == << <<379, 1441>>, <<379, 1443>>, <<381, 1443>>, <<381, 1441>> >>
NorthIsland == << <<383, 1441>>, <<385, 1443>>, <<385, 1441>> >>
Wall == << <<360, 1441>>, <<360, 1443>>, <<400, 1443>>, <<400, 1441>> >>
LandInputs == { {}, {Island}, {Island, NorthIsland}, {Wall} }

InitPlanner ==
    /\ start_point = <<380, 1440>>
    /\ end_point \in { <<380, 1444>>, <<382, 1444>>, <<380, 1442>> }
    /\ land \in LandInputs
    /\ padding \in { k * GridStep : k \in 0..MaxPadding }
    /\ nodes = <<>>
    /\ weight = <<>>
    /\ cursor = 0
    /\ dist = <<>>
    /\ prev = <<>>
    /\ settled = {}
    /\ path = <<>>
    /\ path_weight = 0
    /\ ppc = "grid"
    /\ OnsiteIdle
    /\ LegIdle
    /\ VoyageIdle

\* Water Grid Generator, then the nodes of the graph: every grid point, then
\* start and end.
GenerateGrid ==
    /\ ppc = "grid"
    /\ nodes' = water_grid(start_point, end_point, padding, land)
                   \o <<start_point, end_point>>
    /\ cursor' = 1
    /\ ppc' = "graph"
    /\ UNCHANGED <<start_point, end_point, land, padding, weight, dist, prev,
                   settled, path, path_weight, onsiteVars, legVars, voyageVars>>

\* Visibility Graph Builder: the unordered pairs of node i and each later
\* node.
AddEdges ==
    /\ ppc = "graph"
    /\ LET i == cursor
           visible == { j \in (i + 1)..NodeCount : EdgeAllowed(nodes[i], nodes[j], land) }
       IN  /\ weight' = weight @@
                 [e \in { <<i, j>> : j \in visible } |-> great_circle(nodes[e[1]], nodes[e[2]])]
           /\ IF i + 1 < NodeCount
                 THEN /\ cursor' = i + 1
                      /\ UNCHANGED <<ppc, dist, prev>>
                 ELSE /\ cursor' = 0
                      /\ ppc' = "solve"
                      /\ dist' = (start_node :> 0)
                      /\ prev' = <<>>
    /\ UNCHANGED <<start_point, end_point, land, padding, nodes, settled, path,
                   path_weight, onsiteVars, legVars, voyageVars>>

\* Shortest Path Solver: settle one node and relax its edges.
Settle ==
    /\ ppc = "solve"
    /\ DOMAIN dist \ settled # {}
    /\ end_node \notin settled
    /\ LET u == ExtractMin(DOMAIN dist \ settled, dist)
           better == { v \in (1..NodeCount) \ settled :
                         /\ HasEdge(u, v)
                         /\ Improves(u, v) }
       IN  /\ settled' = settled \cup {u}
           /\ dist' = [v \in DOMAIN dist \cup better |->
                         IF v \in better THEN dist[u] + W(u, v) ELSE dist[v]]
           /\ prev' = [v \in DOMAIN prev \cup better |->
                         IF v \in better THEN u ELSE prev[v]]
    /\ UNCHANGED <<start_point, end_point, land, padding, nodes, weight, cursor,
                   path, path_weight, ppc, onsiteVars, legVars, voyageVars>>

\* Shortest Path Solver: the end node is settled; return the path.
ReturnPath ==
    /\ ppc = "solve"
    /\ end_node \in settled
    /\ path' = PathTo(prev, end_node)
    /\ path_weight' = dist[end_node]
    /\ ppc' = "found"
    /\ UNCHANGED <<start_point, end_point, land, padding, nodes, weight, cursor,
                   dist, prev, settled, onsiteVars, legVars, voyageVars>>

\* Shortest Path Solver: nothing is left to settle and end was not reached.
NoPathFound ==
    /\ ppc = "solve"
    /\ DOMAIN dist \ settled = {}
    /\ end_node \notin settled
    /\ ppc' = "NoPathFound"
    /\ UNCHANGED <<start_point, end_point, land, padding, nodes, weight, cursor,
                   dist, prev, settled, path, path_weight, onsiteVars, legVars,
                   voyageVars>>

NextPlanner == GenerateGrid \/ AddEdges \/ Settle \/ ReturnPath \/ NoPathFound

SpecPlanner == InitPlanner /\ [][NextPlanner]_vars

---------------------------------------------------------------------------
(* Properties *)

\* The least weight of a walk of at most k edges from the start node to
\* each node such a walk reaches (Bellman-Ford); with k = NodeCount - 1 the
\* least weight of any path.
MinOf(S) == CHOOSE x \in S : \A y \in S : x <= y

\* One round: each node's least weight over the walks one edge longer.
\* (f @@ <<>> is f, built as an explicit function: TLC then evaluates each
\* round once.)
RelaxAll(b) ==
    LET reach == DOMAIN b \cup
                 { v \in 1..NodeCount : \E u \in DOMAIN b : HasEdge(u, v) }
    IN  [v \in reach |->
           MinOf((IF v \in DOMAIN b THEN {b[v]} ELSE {}) \cup
                 { b[u] + W(u, v) : u \in { x \in DOMAIN b : HasEdge(x, v) } })]
        @@ <<>>

RECURSIVE LeastWeights(_)
LeastWeights(k) ==
    IF k = 0 THEN (start_node :> 0) ELSE RelaxAll(LeastWeights(k - 1))

RECURSIVE SumWeights(_)
SumWeights(p) ==
    IF Len(p) < 2 THEN 0 ELSE W(p[1], p[2]) + SumWeights(Tail(p))

GridNodes == 1..(NodeCount - 2)
GraphBuilt == ppc \in {"solve", "found", "NoPathFound"}

\* C1: every edge of the route graph is land-free; once the graph is built,
\* two water grid points have an edge if and only if their segment crosses
\* no land polygon; and no leg of the returned path crosses land.
C1_EdgesLandFree ==
    /\ \A e \in DOMAIN weight :
          ~segment_crosses_land(nodes[e[1]], nodes[e[2]], land)
    /\ GraphBuilt =>
          \A i, j \in GridNodes :
             i < j => (HasEdge(i, j) <=> ~segment_crosses_land(nodes[i], nodes[j], land))
    /\ ppc = "found" =>
          \A k \in 1..(Len(path) - 1) :
             ~segment_crosses_land(nodes[path[k]], nodes[path[k + 1]], land)

\* C1 witness: a path was returned that goes round land: it has an
\* intermediate node, and the direct start-end segment crosses land.
C1_Witness ==
    /\ ppc = "found"
    /\ Len(path) >= 3
    /\ segment_crosses_land(start_point, end_point, land)
    /\ \E i, j \in GridNodes : i < j /\ ~HasEdge(i, j)

\* C2: the path returned runs from start to end along edges of the graph,
\* repeats no node, its total weight is the sum of its edge weights, and no
\* start-to-end path of the graph weighs less; and the solver fails only
\* when start and end are not connected.
C2_ShortestSimplePath ==
    /\ ppc = "found" =>
          /\ Len(path) >= 1
          /\ path[1] = start_node
          /\ path[Len(path)] = end_node
          /\ \A k \in 1..(Len(path) - 1) : HasEdge(path[k], path[k + 1])
          /\ \A a, b \in 1..Len(path) : a # b => path[a] # path[b]
          /\ path_weight = SumWeights(path)
          /\ end_node \in DOMAIN LeastWeights(NodeCount - 1)
          /\ path_weight <= LeastWeights(NodeCount - 1)[end_node]
    /\ ppc = "NoPathFound" => end_node \notin DOMAIN LeastWeights(NodeCount - 1)

\* C2 witness: a path of several edges was returned in a graph in which
\* the solver settled nodes that are not on it.
C2_Witness ==
    /\ ppc = "found"
    /\ Len(path) >= 3
    /\ path_weight > 0
    /\ \E v \in settled : \A k \in 1..Len(path) : path[k] # v

\* The first record carries START_TIME and each later record's timestamp is
\* the one before it plus TIME_STEP_MIN.
StepsByOneMinute(rws) ==
    /\ rws # <<>> =>
          /\ rws[1].timestamp = isoformat(START_TIME)
          /\ fromisoformat(rws[1].timestamp) = START_TIME
    /\ \A k \in 1..(Len(rws) - 1) :
          fromisoformat(rws[k + 1].timestamp) = fromisoformat(rws[k].timestamp) + 1

\* C3: over the whole trajectory, as it is built and as it is written, the
\* first record carries START_TIME and each later record is exactly one
\* minute after the record before it.
C3_TimestampsStepOneMinute ==
    /\ StepsByOneMinute(rows)
    /\ csv # "missing" => StepsByOneMinute(csv)

\* C3 witness: a written trajectory with the three phases, in which an "On
\* Site" record follows an "Outbound Transit" record and a "Return Transit"
\* record follows an "On Site" record.
C3_Witness ==
    /\ csv # "missing"
    /\ \E k \in 1..(Len(csv) - 1) :
          csv[k].voyage_phase = "Outbound Transit" /\ csv[k + 1].voyage_phase = "On Site"
    /\ \E k \in 1..(Len(csv) - 1) :
          csv[k].voyage_phase = "On Site" /\ csv[k + 1].voyage_phase = "Return Transit"
    /\ csv[Len(csv)].voyage_phase = "Return Transit"

\* The leg the last interpolate_leg call was made for.
LegStart == points[leg_i]
LegEnd == points[leg_i + 1]

\* C4 as claimed: the first coordinate interpolate_leg returns equals the
\* leg start and the last equals the leg end.
C4_EndpointsExact ==
    leg_coords # <<>> =>
        /\ leg_coords[1] = LegStart
        /\ leg_coords[Len(leg_coords)] = LegEnd

\* C4 amended: whenever interpolate_leg returns a non-empty list, its first
\* coordinate is within the drift scale of the leg start on each axis, and
\* its last coordinate within the drift scale of the leg end.
C4_EndpointsWithinDrift ==
    leg_coords # <<>> =>
        LET first == leg_coords[1]
            last == leg_coords[Len(leg_coords)]
        IN  /\ Abs(first[1] - LegStart[1]) <= DRIFT_SCALE
            /\ Abs(first[2] - LegStart[2]) <= DRIFT_SCALE
            /\ Abs(last[1] - LegEnd[1]) <= DRIFT_SCALE
            /\ Abs(last[2] - LegEnd[2]) <= DRIFT_SCALE

\* C4 witness: a leg of several coordinates whose first coordinate is off
\* the leg start and whose last is off the leg end.
C4_Witness ==
    /\ Len(leg_coords) >= 3
    /\ leg_coords[1] # LegStart
    /\ leg_coords[Len(leg_coords)] # LegEnd

\* C5 as claimed: generate_transit_route does not fail, every leg gets at
\* least one step, and interpolate_leg returns that many coordinates for it.
C5_AtLeastOneStepPerLeg ==
    /\ gpc # "ZeroDivisionError"
    /\ leg_i > 0 =>
          /\ minutes_per_leg(points, total_minutes) >= 1
          /\ Len(leg_coords) = minutes_per_leg(points, total_minutes)
    /\ gpc = "returned" =>
          Len(route) = NumLegs(points) * minutes_per_leg(points, total_minutes)

\* C6: every coordinate onsite_movement_safe has appended is at least 1 km
\* from the rig.
C6_OnsiteOutsideExclusion ==
    \A k \in 1..Len(coords) :
        haversine_m2(coords[k][1], coords[k][2], rig[1], rig[2]) >= ExclusionM2

\* C6 witness: the call returned coordinates after having rejected a
\* candidate.
C6_Witness ==
    /\ opc = "returned"
    /\ coords # <<>>
    /\ attempts > Len(coords)

\* C7 as claimed: both implementations return exactly steps coordinates.
C7_ExactlyStepsCoordinates ==
    opc = "returned" => Len(coords) = steps

\* C8 as claimed: the rig marker and the circles are centred on the
\* configured RIG, and no record of the displayed route lies inside the 1 km
\* exclusion circle.
C8_MapCentredOnRig ==
    pc = "done" =>
        /\ rig_marker = RIG
        /\ \A c \in circles : c[1] = RIG
        /\ \A c \in circles :
              c[2] = 1000 =>
                 \A k \in 1..Len(route_coords) :
                    haversine_m2(route_coords[k][1], route_coords[k][2],
                                 c[1][1], c[1][2]) >= ExclusionM2

=============================================================================
